---- MODULE Spec2Model ----
(***************************************************************************)
(* Model of alex-halloran/shopify-product-images: the two scripts          *)
(* dropbox_to_github.py (PyGithub, thread pool) and simple_upload.py       *)
(* (plain REST, sequential) that copy the Dropbox images named by a        *)
(* Shopify import CSV into a GitHub repository and write a rewritten CSV   *)
(* plus a URL mapping CSV.                                                 *)
(*                                                                         *)
(* Text is modelled character by character: a Python str is a sequence of  *)
(* one-character strings, so that substring tests, str.replace, urlparse,  *)
(* basename and splitext are computed the way the library computes them.   *)
(***************************************************************************)
EXTENDS Integers, Sequences, FiniteSets, TLC

\* ------------------------------------------------------------------------
\* Bounds of the model
\* ------------------------------------------------------------------------

\* Largest number of data rows of the input CSV.
MaxRows == 2

\* BATCH_SIZE is 50 in dropbox_to_github.py and 10 in simple_upload.py;
\* MAX_WORKERS is 5.  Both are scaled down so that a table of a few rows
\* already spans several batches and fills the worker pool.
BATCH_SIZE == 2

MAX_WORKERS == 2

\* Largest number of consecutive upload_to_github calls of the publisher
\* harness (SpecPublish).
MaxCalls == 2

\* ------------------------------------------------------------------------
\* Python str operations on sequences of characters
\* ------------------------------------------------------------------------

Lower == {"a","b","c","d","e","f","g","h","i","j","k","l","m",
          "n","o","p","q","r","s","t","u","v","w","x","y","z"}

Digits == {"0","1","2","3","4","5","6","7","8","9"}

\* s[i:i+len(pat)] == pat
StartsWithAt(s, pat, i) ==
    /\ i >= 1
    /\ i + Len(pat) - 1 <= Len(s)
    /\ SubSeq(s, i, i + Len(pat) - 1) = pat

\* pat in s
Contains(s, pat) == \E i \in 1..(Len(s) + 1) : StartsWithAt(s, pat, i)

\* s.find(c, from): the first index >= from holding character c, 0 when none
Find(s, c, from) ==
    LET hits == {i \in from..Len(s) : i >= 1 /\ s[i] = c}
    IN  IF hits = {} THEN 0 ELSE CHOOSE i \in hits : \A j \in hits : i <= j

\* s.rfind(c): the last index holding character c, 0 when none
RFind(s, c) ==
    LET hits == {i \in 1..Len(s) : s[i] = c}
    IN  IF hits = {} THEN 0 ELSE CHOOSE i \in hits : \A j \in hits : i >= j

\* s[i:] with a 1-based i
From(s, i) == SubSeq(s, i, Len(s))

\* s.split(c, 1)[0]: everything before the first c, all of s when c is absent
CutAt(s, c) == IF Find(s, c, 1) = 0 THEN s ELSE SubSeq(s, 1, Find(s, c, 1) - 1)

\* the first index >= from at which pat occurs in s, 0 when none
NextMatch(s, pat, from) ==
    LET hits == {i \in from..Len(s) : StartsWithAt(s, pat, i)}
    IN  IF hits = {} THEN 0 ELSE CHOOSE i \in hits : \A j \in hits : i <= j

RECURSIVE ReplaceFrom(_, _, _, _)
ReplaceFrom(s, old, new, i) ==
    LET m == NextMatch(s, old, i)
    IN  IF m = 0 THEN From(s, i)
        ELSE SubSeq(s, i, m - 1) \o new \o ReplaceFrom(s, old, new, m + Len(old))

\* s.replace(old, new): every non-overlapping occurrence, left to right
Replace(s, old, new) == ReplaceFrom(s, old, new, 1)

\* c * n
Rep(c, n) == [i \in 1..n |-> c]

\* ------------------------------------------------------------------------
\* urllib.parse.urlparse(url).path, os.path.basename, os.path.splitext
\* ------------------------------------------------------------------------

SchemeChars == Lower \cup Digits \cup {"+", "-", "."}

\* urlsplit: a leading "<scheme>:" is removed when it is a valid scheme
AfterScheme(url) ==
    LET i == Find(url, ":", 1)
    IN  IF /\ i > 1
           /\ url[1] \in Lower
           /\ \A k \in 1..(i - 1) : url[k] \in SchemeChars
        THEN From(url, i + 1)
        ELSE url

\* urlsplit: after "//" the network location runs up to the first of / ? #
AfterNetloc(rest) ==
    IF StartsWithAt(rest, <<"/", "/">>, 1)
    THEN LET ends == {i \in 3..Len(rest) : rest[i] \in {"/", "?", "#"}}
         IN  IF ends = {} THEN <<>>
             ELSE From(rest, CHOOSE i \in ends : \A j \in ends : i <= j)
    ELSE rest

\* the network location itself ("" when the URL has none)
Netloc(url) ==
    LET rest == AfterScheme(url)
    IN  IF StartsWithAt(rest, <<"/", "/">>, 1)
        THEN SubSeq(rest, 3, Len(rest) - Len(AfterNetloc(rest)))
        ELSE <<>>

\* urlparse: the parameters of the last path segment (";...") are split off
SplitParams(p) ==
    LET i == Find(p, ";", RFind(p, "/") + 1)
    IN  IF i = 0 THEN p ELSE SubSeq(p, 1, i - 1)

\* urlparse(url).path: fragment, then query, then parameters are cut off
UrlPath(url) == SplitParams(CutAt(CutAt(AfterNetloc(AfterScheme(url)), "#"), "?"))

\* urlparse(url).query
UrlQuery(url) ==
    LET noFrag == CutAt(AfterNetloc(AfterScheme(url)), "#")
        q      == Find(noFrag, "?", 1)
    IN  IF q = 0 THEN <<>> ELSE From(noFrag, q + 1)

\* os.path.basename(p)
Basename(p) == From(p, RFind(p, "/") + 1)

\* os.path.splitext(p)[1]: from the last dot on, unless only dots precede it
SplitExt(p) ==
    LET sep == RFind(p, "/")
        dot == RFind(p, ".")
    IN  IF dot > sep /\ \E k \in (sep + 1)..(dot - 1) : p[k] # "."
        THEN From(p, dot)
        ELSE <<>>

\* ------------------------------------------------------------------------
\* The URLs of the model
\* ------------------------------------------------------------------------

HostDropbox == <<"h","t","t","p","s",":","/","/","w","w","w",".","d","r","o","p","b","o","x",".","c","o","m">>
HostOther == <<"h","t","t","p","s",":","/","/","c","d","n",".","e","x","a","m","p","l","e",".","c","o","m">>
DirA == <<"/","s","/","a","/">>
DirB == <<"/","s","/","b","/">>
DirMarker == <<"/","s","/","d","l","=","0","/">>
DirNamed == <<"/","d","r","o","p","b","o","x",".","c","o","m","/">>
NamePhoto == <<"p","h","o","t","o",".","j","p","g">>
NameAmp == <<"a","&","b",".","p","n","g">>
NameNoExt == <<"r","e","a","d","m","e">>
NameLong == Rep("x", 97) \o <<".","g","i","f">>
QueryPreview == <<"?","d","l","=","0">>
QueryRaw == <<"?","d","l","=","1">>
QueryXY == <<"?","x","=","1","&","y","=","2">>
QueryKeyed == <<"?","r","l","k","e","y","=","k","&","d","l","=","0">>

UrlAmpA  == HostDropbox \o DirA \o NameAmp \o QueryPreview
UrlAmpB  == HostDropbox \o DirB \o NameAmp \o QueryPreview
UrlLongA == HostDropbox \o DirA \o NameLong \o QueryPreview
UrlLongB == HostDropbox \o DirB \o NameLong \o QueryPreview

\* the URLs whose file name get_safe_filename replaces by a digest
HashedUrls == {UrlAmpA, UrlAmpB, UrlLongA, UrlLongB}

PlainUrls ==
    { h \o d \o n \o q :
        h \in {HostDropbox, HostOther},
        d \in {DirA, DirB, DirMarker, DirNamed},
        n \in {NamePhoto, NameNoExt, <<>>},
        q \in {<<>>, QueryPreview, QueryRaw, QueryXY, QueryKeyed} }

TestUrls == PlainUrls \cup HashedUrls

\* the cells of the input tables: two Dropbox links with the same file name,
\* one whose file name is hashed (UrlAmpA), one link to another host
ImgA   == HostDropbox \o DirA \o NamePhoto \o QueryPreview
ImgB   == HostDropbox \o DirB \o NamePhoto \o QueryPreview
ImgCdn == HostOther \o DirA \o NamePhoto

\* the cells that are Dropbox links
DropboxCells == {ImgA, ImgB, UrlAmpA}

\* ------------------------------------------------------------------------
\* URL Normalizer: get_download_url, get_safe_filename
\* ------------------------------------------------------------------------

Needle_dropbox_com == <<"d","r","o","p","b","o","x",".","c","o","m">>
Needle_dl0 == <<"d","l","=","0">>
Needle_dl1 == <<"d","l","=","1">>
DefaultExt == <<".","j","p","g">>

\* the length above which a file name is replaced by a digest
MaxNameLen == 100

get_download_url(url) ==
    IF Contains(url, Needle_dropbox_com) /\ Contains(url, Needle_dl0)
    THEN Replace(url, Needle_dl0, Needle_dl1)
    ELSE url

\* hashlib.md5(url.encode()).hexdigest(): the digests of the hashed URLs of
\* the model, as computed by MD5
Md5Hex(url) ==
    CASE url = UrlAmpA  ->
           <<"4","7","1","4","9","4","3","b","c","3","a","9","1","e","c","3",
             "6","2","3","5","4","1","6","b","c","3","c","a","c","3","7","a">>
      [] url = UrlAmpB  ->
           <<"c","c","4","a","4","2","f","7","c","1","8","5","9","8","4","2",
             "9","7","e","8","f","f","b","b","d","6","6","f","3","6","6","4">>
      [] url = UrlLongA ->
           <<"3","3","6","0","c","f","d","0","6","b","1","2","b","8","5","c",
             "7","7","f","8","e","d","d","0","7","f","8","c","8","9","3","8">>
      [] url = UrlLongB ->
           <<"7","d","d","0","0","4","2","7","d","6","6","2","1","9","b","4",
             "4","4","6","4","c","2","5","4","e","d","8","f","7","1","3","a">>

get_safe_filename(url) ==
    LET filename == CutAt(Basename(UrlPath(url)), "?")
    IN  IF \/ Len(filename) > MaxNameLen
           \/ Contains(filename, <<"?">>)
           \/ Contains(filename, <<"&">>)
        THEN LET file_ext == IF SplitExt(filename) # <<>>
                             THEN SplitExt(filename) ELSE DefaultExt
             IN  Md5Hex(url) \o file_ext
        ELSE filename

\* urllib.parse.quote(name): letters, digits and _ . - ~ / are kept, every
\* other character of the model's alphabet becomes its %XX escape
PercentCode(c) ==
    CASE c = "&" -> <<"%","2","6">>
      [] c = "=" -> <<"%","3","D">>
      [] c = "?" -> <<"%","3","F">>
      [] c = ":" -> <<"%","3","A">>
      [] c = ";" -> <<"%","3","B">>
      [] c = "#" -> <<"%","2","3">>
      [] c = "+" -> <<"%","2","B">>
      [] OTHER   -> <<c>>

RECURSIVE quote(_)
quote(name) ==
    IF name = <<>> THEN <<>>
    ELSE quote(SubSeq(name, 1, Len(name) - 1)) \o PercentCode(name[Len(name)])

\* ------------------------------------------------------------------------
\* Asset Publisher: paths, public URLs, the requests of upload_to_github
\* ------------------------------------------------------------------------

Dropbox == "dropbox_to_github"
Simple  == "simple_upload"

ImagesPrefix == <<"i","m","a","g","e","s","/">>
PagesPrefix == <<"h","t","t","p","s",":","/","/","a","l","e","x","-","h","a","l","l","o","r","a","n",".","g","i","t","h","u","b",".","i","o","/","s","h","o","p","i","f","y","-","p","r","o","d","u","c","t","-","i","m","a","g","e","s","/","i","m","a","g","e","s","/">>

\* path = f"images/{filename}", for every Dropbox link of the tables
PathTable == [u \in DropboxCells |-> ImagesPrefix \o get_safe_filename(u)]

RemotePath(url) == PathTable[url]

\* the GitHub Pages URL returned for a published file: dropbox_to_github
\* percent-escapes the file name, simple_upload does not
github_pages_url(im, filename) ==
    IF im = Dropbox THEN PagesPrefix \o quote(filename)
                    ELSE PagesPrefix \o filename

PublicUrlTable ==
    [im \in {Dropbox, Simple}, u \in DropboxCells |->
        github_pages_url(im, get_safe_filename(u))]

PublicUrl(im, url) == PublicUrlTable[im, url]

\* FirstRequest with the looked-up sha never sent: every write is a create
FirstRequest_AlwaysCreate(lookup) == "create"

\* The request issued after the existence lookup: an update carrying the
\* looked-up sha when the lookup found the file, a create otherwise
\* (get_contents raising, or a status other than 200, counts as "not found").
FirstRequest(lookup) == IF lookup = "present" THEN "update" ELSE "create"

\* AfterFailedWrite with the failure escaping the call instead of being
\* turned into (url, None)
AfterFailedWrite_Raises(im, op) == "raised"

\* What follows a failed write request: dropbox_to_github's update sits in
\* the try block whose except branch calls create_file; every other failure
\* ends the call with (url, None).
AfterFailedWrite(im, op) ==
    IF im = Dropbox /\ op = "update" THEN "fallback" ELSE "returned"

\* The contents API of the store: a create is accepted when nothing is at the
\* path, an update when the sha sent is the sha of what is at the path.  The
\* sha of a blob is the hash of its content; the URL whose bytes they are
\* stands for it.  A sha is <<>> (none) or <<the URL>>.
StoreAccepts(st, path, op, sha) ==
    IF op = "create" THEN path \notin DOMAIN st
    ELSE path \in DOMAIN st /\ sha = <<st[path]>>

\* st with the bytes of url written at path
StorePut(st, path, url) ==
    [p \in DOMAIN st \cup {path} |-> IF p = path THEN url ELSE st[p]]

\* MergeResult with the mapping rebuilt from the one result at hand
MergeResult_Overwrite(m, original_url, github_url) ==
    IF github_url # <<>>
    THEN [u \in {original_url} |-> github_url[1]]
    ELSE m

\* if github_url: url_mappings[original_url] = github_url
MergeResult(m, original_url, github_url) ==
    IF github_url # <<>>
    THEN [u \in DOMAIN m \cup {original_url} |->
            IF u = original_url THEN github_url[1] ELSE m[u]]
    ELSE m

\* ------------------------------------------------------------------------
\* Batch Orchestrator: candidates, batches, scheduling
\* ------------------------------------------------------------------------

ImageSrc == "Image Src"
VariantImage == "Variant Image"
GitHubImageSrc == "GitHub_Image_Src"
GitHubVariantImage == "GitHub_Variant_Image"

\* the rows an input table is made of (both columns present)
RowPool ==
    { [c \in {ImageSrc, VariantImage} |-> IF c = ImageSrc THEN r[1] ELSE r[2]] :
        r \in { <<ImgA, ImgA>>, <<ImgA, ImgB>>, <<UrlAmpA, <<>> >>,
                << <<>>, ImgCdn>> } }

\* the input has the primary image column and may have the variant column
Headers == { {ImageSrc}, {ImageSrc, VariantImage} }

RowsOf(hdr) == { [c \in hdr |-> r[c]] : r \in RowPool }

TablesOf(hdr) ==
    UNION { [1..n -> RowsOf(hdr)] : n \in 0..MaxRows }

\* re.search('dropbox.com', s): the dot of the pattern matches any character
ReSearchDropboxCom(s) ==
    \E i \in 1..Len(s) :
        /\ StartsWithAt(s, <<"d","r","o","p","b","o","x">>, i)
        /\ i + 7 <= Len(s)
        /\ StartsWithAt(s, <<"c","o","m">>, i + 8)

\* Series.unique(): the values in the order of their first appearance
RECURSIVE Unique(_)
Unique(s) ==
    IF s = <<>> THEN <<>>
    ELSE LET r == Unique(SubSeq(s, 1, Len(s) - 1))
         IN  IF \E j \in 1..(Len(s) - 1) : s[j] = s[Len(s)]
             THEN r ELSE Append(r, s[Len(s)])

Column(tbl, c) == [i \in 1..Len(tbl) |-> tbl[i][c]]

\* the values a cell of the input can take; <<>> is the empty cell (NaN)
Cells == { r[c] : r \in RowPool, c \in {ImageSrc, VariantImage} }

\* Series.str.contains('dropbox.com', na=False), value by value
StrContains == [x \in Cells |-> x # <<>> /\ ReSearchDropboxCom(x)]

\* pd.notna(x) and 'dropbox.com' in x, value by value
NotNaAndIn == [x \in Cells |-> x # <<>> /\ Contains(x, Needle_dropbox_com)]

\* pd.read_csv gives a column without a single value the dtype float64, and
\* Series.str raises AttributeError on such a column; a table without rows
\* has columns of dtype object
HasStrAccessor(tbl, c) == tbl = <<>> \/ \E i \in 1..Len(tbl) : tbl[i][c] # <<>>

\* df.loc[df[c].str.contains('dropbox.com', na=False), c].unique()
DropboxColumn(tbl, hdr, c) ==
    IF c \in hdr THEN Unique(SelectSeq(Column(tbl, c), LAMBDA x : StrContains[x]))
    ELSE <<>>

\* the arguments of dropbox_urls.add(...) of simple_upload, row by row
RECURSIVE SimpleAdds(_, _)
SimpleAdds(tbl, hdr) ==
    IF tbl = <<>> THEN <<>>
    ELSE LET row == tbl[Len(tbl)]
             add(c) == IF c \in hdr /\ NotNaAndIn[row[c]]
                       THEN <<row[c]>> ELSE <<>>
         IN  SimpleAdds(SubSeq(tbl, 1, Len(tbl) - 1), hdr)
                 \o add(ImageSrc) \o add(VariantImage)

\* the values collected from the table before duplicates are removed
Collected(im, tbl, hdr) ==
    IF im = Dropbox
    THEN DropboxColumn(tbl, hdr, ImageSrc) \o DropboxColumn(tbl, hdr, VariantImage)
    ELSE SimpleAdds(tbl, hdr)

Orderings(S) ==
    { s \in [1..Cardinality(S) -> S] :
        \A i, j \in 1..Cardinality(S) : i # j => s[i] # s[j] }

\* ListOfSet with the set() left out: the collected values as they came
ListOfSet_Keep(values) == {values}

\* list(set(values)): each value once, in an order the hash seed decides
ListOfSet(values) == Orderings({values[i] : i \in DOMAIN values})

\* (len(dropbox_urls) + BATCH_SIZE - 1) // BATCH_SIZE
NumBatches(n) == (n + BATCH_SIZE - 1) \div BATCH_SIZE

\* the positions of dropbox_urls[i:i+BATCH_SIZE] for batch b (counted from 0)
BatchPositions(n, b) ==
    { k \in 1..n : b * BATCH_SIZE < k /\ k <= (b + 1) * BATCH_SIZE }

BatchOf(k) == (k - 1) \div BATCH_SIZE

\* PauseAfter with a sleep after every batch, the last one included
PauseAfter_Always(b, n) == TRUE

\* if batch_index < number of batches - 1: time.sleep(10)
PauseAfter(b, n) == b < NumBatches(n) - 1

\* the pool takes queued calls in submission order while a thread is free
\* (dropbox_to_github); simple_upload makes one call at a time and merges
\* its result before the next
CanStart(im, ws, i) ==
    /\ ws[i].st = "queued"
    /\ \A j \in 1..(i - 1) : ws[j].st # "queued"
    /\ IF im = Dropbox
       THEN Cardinality({j \in DOMAIN ws :
                ws[j].st \in {"lookup", "write", "fallback"}}) < MAX_WORKERS
       ELSE \A j \in 1..(i - 1) : ws[j].st = "merged"

\* leaving the with-block and the as_completed loop: every future is done
\* and its result has been merged
BatchComplete(ws) == \A i \in DOMAIN ws : ws[i].st = "merged"

\* ------------------------------------------------------------------------
\* Table Rewriter
\* ------------------------------------------------------------------------

SourceColumn(c) == IF c = GitHubImageSrc THEN ImageSrc ELSE VariantImage

\* the columns added to the output: dropbox_to_github adds one per source
\* column of the table, simple_upload always adds both
AddedColumns(im, hdr) ==
    IF im = Dropbox
    THEN {c \in {GitHubImageSrc, GitHubVariantImage} : SourceColumn(c) \in hdr}
    ELSE {GitHubImageSrc, GitHubVariantImage}

\* Unmapped with the empty string in both scripts
Unmapped_Empty(im, x) == <<>>

\* the added cell for a value x that is no key of the mapping:
\* url_mappings.get(x, x) in dropbox_to_github, '' in simple_upload
Unmapped(im, x) == IF im = Dropbox THEN x ELSE <<>>

AddedCell(im, hdr, m, row, c) ==
    IF SourceColumn(c) \in hdr
    THEN IF row[SourceColumn(c)] \in DOMAIN m
         THEN m[row[SourceColumn(c)]]
         ELSE Unmapped(im, row[SourceColumn(c)])
    ELSE <<>>

RewriteRow(im, hdr, m, row) ==
    [c \in hdr \cup AddedColumns(im, hdr) |->
        IF c \in hdr THEN row[c] ELSE AddedCell(im, hdr, m, row, c)]

\* ------------------------------------------------------------------------
\* State
\* ------------------------------------------------------------------------

VARIABLES
    impl,            \* which of the two scripts runs
    argc,            \* len(sys.argv)
    pc,              \* position of the main thread
    images_dir,      \* the repository has an images directory
    gh_pages,        \* the repository has a gh-pages branch
    header,          \* the columns of the input CSV
    table,           \* its rows
    dropbox_urls,    \* the list of candidate URLs
    batch_index,
    workers,         \* the upload_to_github calls of the current batch
    url_mappings,
    store,           \* default branch of the repository: path -> content
    pages,           \* paths copied to the gh-pages branch
    output_csv,      \* <<rows>> once <input>_with_github_urls.csv is written
    mappings_csv,    \* <<pairs>> once dropbox_to_github_mappings.csv is written
    remote_ops,      \* kinds of repository requests issued so far:
                     \* "read" (get_repo, get_contents, get_branch, GET),
                     \* "write" (create_file, update_file, create_git_ref, PUT)
    started,         \* positions of dropbox_urls whose upload has begun
    finished,        \* positions of dropbox_urls whose upload has returned
    fetch_failed,    \* URLs whose download gave nothing
    published,       \* URLs for which the store accepted a write
    pauses,          \* number of time.sleep(10) taken
    returned_call,   \* publisher harness: the upload_to_github call that
                     \* returned in the last step, with the requests it
                     \* made; <<>> otherwise
    calls,           \* publisher harness: the calls made, in order
    urlA, urlB,      \* normalizer harness: the two URLs under test
    nameA, nameB,    \* <<get_safe_filename(url)>> once computed, <<>> before
    directA          \* <<get_download_url(urlA)>> once computed, <<>> before

normVars == <<urlA, urlB, nameA, nameB, directA>>

envVars == <<impl, argc, images_dir, gh_pages, header, table>>

ghostVars == <<started, finished, fetch_failed, published>>

vars == <<impl, argc, pc, images_dir, gh_pages, header, table, dropbox_urls,
          batch_index, workers, url_mappings, store, pages, output_csv,
          mappings_csv, remote_ops, started, finished, fetch_failed,
          published, pauses, returned_call, calls, urlA, urlB, nameA,
          nameB, directA>>

NoMap == [u \in {} |-> <<>>]

\* a call: its URL, its position (st), the outcome of its lookup and the sha
\* it read, whether a request of its failed for a reason of its own, and
\* its result once returned: <<>> for (url, None), <<public URL>> otherwise
NewWorker(url) ==
    [url |-> url, st |-> "queued", lookup |-> "none", sha |-> <<>>,
     faults |-> FALSE, result |-> <<>>]

\* a call that has returned: its locals are gone, its result is left
Returned(w, result) ==
    [NewWorker(w.url) EXCEPT !.st = "returned", !.result = result]

\* what a returning call did: the outcome of its lookup, the write requests
\* it made, and whether anything failed for a reason of its own
CallRecord(w, reqs, fault, result) ==
    [url |-> w.url, lookup |-> w.lookup, sha |-> w.sha, reqs |-> reqs,
     faults |-> w.faults \/ fault, result |-> result]

\* the publisher harness watches the requests of the call it makes; a run
\* of a script keeps no such record
Observed(record) == IF pc = "harness" THEN record ELSE <<>>

\* position in dropbox_urls of the i-th call of the current batch
Pos(i) == batch_index * BATCH_SIZE + i

IdlePipeline ==
    /\ dropbox_urls = <<>>
    /\ batch_index = 0
    /\ workers = <<>>
    /\ url_mappings = NoMap
    /\ store = NoMap
    /\ pages = {}
    /\ output_csv = <<>>
    /\ mappings_csv = <<>>
    /\ remote_ops = {}
    /\ started = {}
    /\ finished = {}
    /\ fetch_failed = {}
    /\ published = {}
    /\ pauses = 0
    /\ returned_call = <<>>
    /\ calls = <<>>

IdleNorm ==
    /\ urlA = <<>>
    /\ urlB = <<>>
    /\ nameA = <<>>
    /\ nameB = <<>>
    /\ directA = <<>>

\* ------------------------------------------------------------------------
\* Spec: one run of a script
\* ------------------------------------------------------------------------

\* largest len(sys.argv) tried
MaxArgc == 3

Init ==
    /\ impl \in {Dropbox, Simple}
    /\ argc \in 1..MaxArgc
    /\ pc = "import"
    \* simple_upload never looks at the directory or the branch
    /\ images_dir \in IF impl = Dropbox THEN BOOLEAN ELSE {TRUE}
    /\ gh_pages \in IF impl = Dropbox THEN BOOLEAN ELSE {TRUE}
    /\ header \in Headers
    /\ table \in TablesOf(header)
    /\ IdlePipeline
    /\ IdleNorm

\* Module level of the script, executed before the __main__ block.
\* dropbox_to_github opens the repository, makes sure of the images
\* directory and of the gh-pages branch; simple_upload only sets constants.
ModuleInit ==
    /\ pc = "import"
    /\ pc' = "main"
    /\ IF impl = Dropbox
       THEN \* get_repo, get_contents("images"), get_branch("gh-pages");
            \* create_file(".gitkeep") and create_git_ref when they are missing
            /\ remote_ops' = remote_ops \cup {"read"}
                  \cup (IF images_dir /\ gh_pages THEN {} ELSE {"write"})
            /\ images_dir' = TRUE
            /\ gh_pages' = TRUE
       ELSE UNCHANGED <<remote_ops, images_dir, gh_pages>>
    /\ returned_call' = <<>>
    /\ UNCHANGED <<impl, argc, header, table, dropbox_urls, batch_index,
                   workers, url_mappings, store, pages, output_csv,
                   mappings_csv, pauses, calls>>
    /\ UNCHANGED ghostVars
    /\ UNCHANGED normVars

\* g.get_repo(GITHUB_REPO) raises (bad token, no network): the import dies
ModuleInitFails ==
    /\ pc = "import"
    /\ impl = Dropbox
    /\ pc' = "crashed"
    /\ remote_ops' = remote_ops \cup {"read"}
    /\ returned_call' = <<>>
    /\ UNCHANGED <<envVars, dropbox_urls, batch_index, workers, url_mappings,
                   store, pages, output_csv, mappings_csv, pauses, calls>>
    /\ UNCHANGED ghostVars
    /\ UNCHANGED normVars

\* if len(sys.argv) != 2: print usage; sys.exit(1)
Main ==
    /\ pc = "main"
    /\ pc' = IF argc # 2 THEN "usage_exit" ELSE "collect"
    /\ returned_call' = <<>>
    /\ UNCHANGED <<envVars, dropbox_urls, batch_index, workers, url_mappings,
                   store, pages, output_csv, mappings_csv, remote_ops, pauses,
                   calls>>
    /\ UNCHANGED ghostVars
    /\ UNCHANGED normVars

\* dropbox_to_github, process_csv: .str on a column of the table raises, and
\* nothing catches it
CollectRaises ==
    /\ pc = "collect"
    /\ impl = Dropbox
    /\ \E c \in header : ~HasStrAccessor(table, c)
    /\ pc' = "crashed"
    /\ returned_call' = <<>>
    /\ UNCHANGED <<envVars, dropbox_urls, batch_index, workers, url_mappings,
                   store, pages, output_csv, mappings_csv, remote_ops, pauses,
                   calls>>
    /\ UNCHANGED ghostVars
    /\ UNCHANGED normVars

\* process_csv up to the batch loop: read the table, collect the candidates
Collect ==
    /\ pc = "collect"
    /\ impl = Dropbox => \A c \in header : HasStrAccessor(table, c)
    /\ dropbox_urls' \in ListOfSet(Collected(impl, table, header))
    /\ url_mappings' = NoMap
    /\ batch_index' = 0
    /\ pc' = IF Len(dropbox_urls') = 0 THEN "rewrite" ELSE "batch"
    /\ returned_call' = <<>>
    /\ UNCHANGED <<envVars, workers, store, pages, output_csv, mappings_csv,
                   remote_ops, pauses, calls>>
    /\ UNCHANGED ghostVars
    /\ UNCHANGED normVars

\* batch = dropbox_urls[i:i+BATCH_SIZE]; one call per element of the batch
StartBatch ==
    /\ pc = "batch"
    /\ LET n     == Len(dropbox_urls)
           first == batch_index * BATCH_SIZE
           size  == Cardinality(BatchPositions(n, batch_index))
       IN  workers' = [i \in 1..size |-> NewWorker(dropbox_urls[first + i])]
    /\ pc' = "running"
    /\ returned_call' = <<>>
    /\ UNCHANGED <<envVars, dropbox_urls, batch_index, url_mappings, store,
                   pages, output_csv, mappings_csv, remote_ops, pauses, calls>>
    /\ UNCHANGED ghostVars
    /\ UNCHANGED normVars

\* upload_to_github, first step: download_image(url).  A failed request and
\* an empty body both end the call with (url, None).
Download(i) ==
    /\ pc \in {"running", "harness"}
    /\ i \in DOMAIN workers
    /\ CanStart(impl, workers, i)
    /\ started' = started \cup {Pos(i)}
    /\ \E outcome \in {"bytes", "empty", "fail"} :
         IF outcome = "bytes"
         THEN /\ workers' = [workers EXCEPT ![i].st = "lookup"]
              /\ returned_call' = <<>>
              /\ UNCHANGED <<finished, fetch_failed>>
         ELSE /\ workers' = [workers EXCEPT ![i] = Returned(workers[i], <<>>)]
              /\ returned_call' = Observed(CallRecord(workers[i], <<>>, TRUE, <<>>))
              /\ finished' = finished \cup {Pos(i)}
              /\ fetch_failed' = fetch_failed \cup {workers[i].url}
    /\ UNCHANGED <<envVars, pc, dropbox_urls, batch_index, url_mappings, store,
                   pages, output_csv, mappings_csv, remote_ops, published,
                   pauses, calls>>
    /\ UNCHANGED normVars

\* upload_to_github, second step: does the file exist at the path?
\* repo.get_contents(path) / requests.get(api_url).  The request can fail
\* for a reason of its own, whatever is at the path.
Lookup(i) ==
    /\ pc \in {"running", "harness"}
    /\ i \in DOMAIN workers
    /\ workers[i].st = "lookup"
    /\ remote_ops' = remote_ops \cup {"read"}
    /\ returned_call' = <<>>
    /\ LET path == RemotePath(workers[i].url)
       IN  \E error \in BOOLEAN :
             workers' =
               IF error
               THEN [workers EXCEPT ![i].st = "write", ![i].lookup = "error",
                                    ![i].faults = TRUE]
               ELSE IF path \in DOMAIN store
               THEN [workers EXCEPT ![i].st = "write", ![i].lookup = "present",
                                    ![i].sha = <<store[path]>>]
               ELSE [workers EXCEPT ![i].st = "write", ![i].lookup = "absent"]
    /\ UNCHANGED <<envVars, pc, dropbox_urls, batch_index, url_mappings, store,
                   pages, output_csv, mappings_csv, pauses, calls>>
    /\ UNCHANGED ghostVars
    /\ UNCHANGED normVars

\* One write request of call i: op is "update" or "create".  It is accepted
\* by the store or fails, either refused by the store or for a reason of its
\* own (fault).
WriteRequest(i, op, fault) ==
    LET w      == workers[i]
        path   == RemotePath(w.url)
        sha    == IF op = "update" THEN w.sha ELSE <<>>
        ok     == ~fault /\ StoreAccepts(store, path, op, sha)
        req    == [op |-> op, sha |-> sha, ok |-> ok]
        \* a call in the except branch has made its update, which failed
        reqs   == IF w.st = "fallback"
                  THEN <<[op |-> "update", sha |-> w.sha, ok |-> FALSE], req>>
                  ELSE <<req>>
        next   == IF ok THEN "returned" ELSE AfterFailedWrite(impl, op)
        result == IF ok THEN <<PublicUrl(impl, w.url)>> ELSE <<>>
    IN  /\ remote_ops' = remote_ops \cup {"write"}
        /\ IF next = "returned"
           THEN /\ workers' = [workers EXCEPT ![i] = Returned(w, result)]
                /\ returned_call' = Observed(CallRecord(w, reqs, fault, result))
                /\ finished' = finished \cup {Pos(i)}
           ELSE /\ workers' = [workers EXCEPT ![i].st = next,
                                              ![i].faults = w.faults \/ fault]
                /\ returned_call' = <<>>
                /\ UNCHANGED finished
        /\ store' = IF ok THEN StorePut(store, path, w.url) ELSE store
        /\ published' = IF ok THEN published \cup {w.url} ELSE published

\* upload_to_github, third step: update_file with the looked-up sha or
\* create_file (dropbox_to_github); one PUT with or without sha (simple_upload)
Write(i) ==
    /\ pc \in {"running", "harness"}
    /\ i \in DOMAIN workers
    /\ workers[i].st = "write"
    /\ \E fault \in BOOLEAN :
         WriteRequest(i, FirstRequest(workers[i].lookup), fault)
    /\ UNCHANGED <<envVars, pc, dropbox_urls, batch_index, url_mappings, pages,
                   output_csv, mappings_csv, started, fetch_failed, pauses,
                   calls>>
    /\ UNCHANGED normVars

\* dropbox_to_github: the except branch after a failed update: create_file
Fallback(i) ==
    /\ pc \in {"running", "harness"}
    /\ i \in DOMAIN workers
    /\ workers[i].st = "fallback"
    /\ \E fault \in BOOLEAN : WriteRequest(i, "create", fault)
    /\ UNCHANGED <<envVars, pc, dropbox_urls, batch_index, url_mappings, pages,
                   output_csv, mappings_csv, started, fetch_failed, pauses,
                   calls>>
    /\ UNCHANGED normVars

\* the main thread takes the result of a finished call
Merge(i) ==
    /\ pc = "running"
    /\ i \in DOMAIN workers
    /\ workers[i].st = "returned"
    /\ url_mappings' = MergeResult(url_mappings, workers[i].url, workers[i].result)
    /\ workers' = [workers EXCEPT
                     ![i] = [NewWorker(workers[i].url) EXCEPT !.st = "merged"]]
    /\ returned_call' = <<>>
    /\ UNCHANGED <<envVars, pc, dropbox_urls, batch_index, store, pages,
                   output_csv, mappings_csv, remote_ops, pauses, calls>>
    /\ UNCHANGED ghostVars
    /\ UNCHANGED normVars

\* end of a batch: sleep unless it was the last one
EndBatch ==
    /\ pc = "running"
    /\ BatchComplete(workers)
    /\ workers' = <<>>
    /\ IF PauseAfter(batch_index, Len(dropbox_urls))
       THEN pc' = "sleep" /\ UNCHANGED batch_index
       ELSE /\ batch_index' = batch_index + 1
            /\ pc' = IF batch_index + 1 < NumBatches(Len(dropbox_urls))
                     THEN "batch" ELSE "rewrite"
    /\ returned_call' = <<>>
    /\ UNCHANGED <<envVars, dropbox_urls, url_mappings, store, pages,
                   output_csv, mappings_csv, remote_ops, pauses, calls>>
    /\ UNCHANGED ghostVars
    /\ UNCHANGED normVars

\* time.sleep(10), then the next iteration of the batch loop
Sleep ==
    /\ pc = "sleep"
    /\ pauses' = pauses + 1
    /\ batch_index' = batch_index + 1
    /\ pc' = IF batch_index + 1 < NumBatches(Len(dropbox_urls))
             THEN "batch" ELSE "rewrite"
    /\ returned_call' = <<>>
    /\ UNCHANGED <<envVars, dropbox_urls, workers, url_mappings, store, pages,
                   output_csv, mappings_csv, remote_ops, calls>>
    /\ UNCHANGED ghostVars
    /\ UNCHANGED normVars

\* the two output files
Rewrite ==
    /\ pc = "rewrite"
    /\ output_csv' =
         << [i \in 1..Len(table) |->
               RewriteRow(impl, header, url_mappings, table[i])] >>
    /\ mappings_csv' = << {<<u, url_mappings[u]>> : u \in DOMAIN url_mappings} >>
    /\ pc' = IF impl = Dropbox THEN "pages" ELSE "done"
    /\ returned_call' = <<>>
    /\ UNCHANGED <<envVars, dropbox_urls, batch_index, workers, url_mappings,
                   store, pages, remote_ops, pauses, calls>>
    /\ UNCHANGED ghostVars
    /\ UNCHANGED normVars

\* dropbox_to_github: index.html and a copy of every image on gh-pages.
\* Each copy sits in its own try block, and all of it in an outer one, so
\* any part of the images may end up copied.
UpdatePages ==
    /\ pc = "pages"
    /\ \E copied \in SUBSET (DOMAIN store) : pages' = pages \cup copied
    /\ remote_ops' = remote_ops \cup {"read", "write"}
    /\ pc' = "done"
    /\ returned_call' = <<>>
    /\ UNCHANGED <<envVars, dropbox_urls, batch_index, workers, url_mappings,
                   store, output_csv, mappings_csv, pauses, calls>>
    /\ UNCHANGED ghostVars
    /\ UNCHANGED normVars

Next ==
    \/ ModuleInit
    \/ ModuleInitFails
    \/ Main
    \/ CollectRaises
    \/ Collect
    \/ StartBatch
    \/ \E i \in 1..(BATCH_SIZE + 1) : Download(i)
    \/ \E i \in 1..(BATCH_SIZE + 1) : Lookup(i)
    \/ \E i \in 1..(BATCH_SIZE + 1) : Write(i)
    \/ \E i \in 1..(BATCH_SIZE + 1) : Fallback(i)
    \/ \E i \in 1..(BATCH_SIZE + 1) : Merge(i)
    \/ EndBatch
    \/ Sleep
    \/ Rewrite
    \/ UpdatePages

Spec == Init /\ [][Next]_vars

\* ------------------------------------------------------------------------
\* SpecNorm: the two pure functions applied to every pair of test URLs
\* ------------------------------------------------------------------------

InitNorm ==
    /\ urlA \in TestUrls
    /\ urlB \in TestUrls
    /\ nameA = <<>>
    /\ nameB = <<>>
    /\ directA = <<>>
    /\ impl = Simple
    /\ argc = 2
    /\ pc = "normalizer"
    /\ images_dir = TRUE
    /\ gh_pages = TRUE
    /\ header = {}
    /\ table = <<>>
    /\ IdlePipeline

DeriveNames ==
    /\ pc = "normalizer"
    /\ nameA = <<>>
    /\ nameA' = <<get_safe_filename(urlA)>>
    /\ nameB' = <<get_safe_filename(urlB)>>
    /\ UNCHANGED <<urlA, urlB, directA>>
    /\ returned_call' = <<>>
    /\ UNCHANGED <<envVars, pc, dropbox_urls, batch_index, workers,
                   url_mappings, store, pages, output_csv, mappings_csv,
                   remote_ops, pauses, calls>>
    /\ UNCHANGED ghostVars

ToDirect ==
    /\ pc = "normalizer"
    /\ directA = <<>>
    /\ directA' = <<get_download_url(urlA)>>
    /\ UNCHANGED <<urlA, urlB, nameA, nameB>>
    /\ returned_call' = <<>>
    /\ UNCHANGED <<envVars, pc, dropbox_urls, batch_index, workers,
                   url_mappings, store, pages, output_csv, mappings_csv,
                   remote_ops, pauses, calls>>
    /\ UNCHANGED ghostVars

NextNorm == DeriveNames \/ ToDirect

SpecNorm == InitNorm /\ [][NextNorm]_vars

\* ------------------------------------------------------------------------
\* SpecPublish: upload_to_github called several times in sequence against
\* one store, as a test of the publisher would
\* ------------------------------------------------------------------------

InitPublish ==
    /\ impl \in {Dropbox, Simple}
    /\ argc = 2
    /\ pc = "harness"
    /\ images_dir = TRUE
    /\ gh_pages = TRUE
    /\ header = {}
    /\ table = <<>>
    /\ IdlePipeline
    /\ IdleNorm

HarnessCall(u) ==
    /\ pc = "harness"
    /\ workers = <<>>
    /\ Len(calls) < MaxCalls
    /\ workers' = <<NewWorker(u)>>
    /\ returned_call' = <<>>
    /\ UNCHANGED <<envVars, pc, dropbox_urls, batch_index, url_mappings, store,
                   pages, output_csv, mappings_csv, remote_ops, pauses, calls>>
    /\ UNCHANGED ghostVars
    /\ UNCHANGED normVars

HarnessReturn ==
    /\ pc = "harness"
    /\ workers # <<>>
    /\ workers[1].st = "returned"
    /\ calls' = Append(calls, returned_call)
    /\ workers' = <<>>
    /\ returned_call' = <<>>
    /\ UNCHANGED <<envVars, pc, dropbox_urls, batch_index, url_mappings, store,
                   pages, output_csv, mappings_csv, remote_ops, pauses>>
    /\ UNCHANGED ghostVars
    /\ UNCHANGED normVars

NextPublish ==
    \/ \E u \in DropboxCells : HarnessCall(u)
    \/ Download(1)
    \/ Lookup(1)
    \/ Write(1)
    \/ Fallback(1)
    \/ HarnessReturn

SpecPublish == InitPublish /\ [][NextPublish]_vars

\* ------------------------------------------------------------------------
\* LiveSpec: a run whose threads keep being scheduled and whose requests
\* all return (the download has timeout=30, PyGithub a default timeout)
\* ------------------------------------------------------------------------

LiveSpec == Spec /\ WF_vars(Next)

\* ------------------------------------------------------------------------
\* Properties
\* ------------------------------------------------------------------------

Written == output_csv # <<>> /\ mappings_csv # <<>>

AddedColumn(c) == IF c = ImageSrc THEN GitHubImageSrc ELSE GitHubVariantImage

\* the Dropbox links found in the recognised columns of the table
CandidateSet ==
    { table[i][c] : i \in 1..Len(table), c \in header }
        \cap { x \in DropboxCells \cup {ImgCdn} : Contains(x, Needle_dropbox_com) }

\* number of upload_to_github calls made for u in this run
Attempts(u) == Cardinality({k \in started : dropbox_urls[k] = u})

\* C1 as claimed: in the written output table, for every row and each
\* recognised column, the added column holds the mapped URL when the cell is
\* a key of the mapping and the empty string otherwise; a URL whose fetch
\* failed is in neither the mapping table nor the added column.
C1_EmptyWhenUnmapped ==
    Written =>
        /\ \A i \in 1..Len(table) : \A c \in header :
             LET x == table[i][c]
             IN  /\ AddedColumn(c) \in DOMAIN output_csv[1][i]
                 /\ output_csv[1][i][AddedColumn(c)] =
                        IF x \in DOMAIN url_mappings THEN url_mappings[x] ELSE <<>>
        /\ \A u \in fetch_failed : \A pr \in mappings_csv[1] : pr[1] # u

\* C1 amended: the added column holds the mapped URL when the cell is a key
\* of the mapping; otherwise the empty string in simple_upload and the
\* original cell value in dropbox_to_github.  A recognised column missing
\* from the table gives an empty added column in simple_upload and no added
\* column in dropbox_to_github.  The mapping table holds exactly the mapping,
\* and no URL whose fetch failed.
C1_AddedColumns ==
    Written =>
        /\ \A i \in 1..Len(table) : \A c \in {ImageSrc, VariantImage} :
             LET out == output_csv[1][i]
                 a   == AddedColumn(c)
             IN  IF c \in header
                 THEN /\ a \in DOMAIN out
                      /\ out[a] =
                           IF table[i][c] \in DOMAIN url_mappings
                           THEN url_mappings[table[i][c]]
                           ELSE IF impl = Simple THEN <<>> ELSE table[i][c]
                 ELSE IF impl = Simple
                      THEN a \in DOMAIN out /\ out[a] = <<>>
                      ELSE a \notin DOMAIN out
        /\ mappings_csv[1] = {<<u, url_mappings[u]>> : u \in DOMAIN url_mappings}
        /\ \A u \in fetch_failed :
             /\ u \notin DOMAIN url_mappings
             /\ \A pr \in mappings_csv[1] : pr[1] # u

\* dropbox_to_github has written its output and a candidate whose fetch
\* failed sits, as the original URL, in the added column
C1_Witness ==
    /\ Written
    /\ impl = Dropbox
    /\ \E i \in 1..Len(table) : \E c \in header :
         /\ table[i][c] \in fetch_failed
         /\ output_csv[1][i][AddedColumn(c)] = table[i][c]

Ops(call) == [k \in DOMAIN call.reqs |-> call.reqs[k].op]

\* C3: in the publisher harness, starting from a store with nothing in it,
\* when the first two calls are for the same URL and nothing went wrong in
\* either (download, lookup and write requests all answered), the first call
\* made one create and the second one update, the store holds exactly one
\* object, at the URL's path and with its bytes, and both calls returned the
\* same public URL.
C3_PublishTwice ==
    ( /\ pc = "harness"
      /\ Len(calls) = 2
      /\ workers = <<>>
      /\ calls[1].url = calls[2].url
      /\ ~calls[1].faults
      /\ ~calls[2].faults )
    => /\ Ops(calls[1]) = <<"create">>
       /\ Ops(calls[2]) = <<"update">>
       /\ calls[2].reqs[1].ok
       /\ DOMAIN store = {RemotePath(calls[1].url)}
       /\ store[RemotePath(calls[1].url)] = calls[1].url
       /\ calls[1].result # <<>>
       /\ calls[1].result = calls[2].result

\* two calls in a row for one URL, nothing went wrong in either
C3_Witness ==
    /\ pc = "harness"
    /\ Len(calls) = 2
    /\ workers = <<>>
    /\ calls[1].url = calls[2].url
    /\ ~calls[1].faults
    /\ ~calls[2].faults
    /\ calls[2].result # <<>>

\* C4 as claimed: two distinct URLs with the same last path segment get
\* distinct asset names.
C4_DistinctNames ==
    ( /\ nameA # <<>>
      /\ nameB # <<>>
      /\ urlA # urlB
      /\ Basename(UrlPath(urlA)) = Basename(UrlPath(urlB)) )
    => nameA # nameB

\* C5 as claimed: a run that ends with the usage message has issued no
\* repository request, started no upload and written no output file.
C5_UsageBeforeAnything ==
    pc = "usage_exit" =>
        /\ remote_ops = {}
        /\ started = {}
        /\ output_csv = <<>>
        /\ mappings_csv = <<>>

\* every candidate has been uploaded and both output files are written
RunComplete ==
    /\ pc \in {"pages", "done"}
    /\ Written
    /\ started = 1..Len(dropbox_urls)
    /\ finished = started

\* C6: whatever the candidates and whatever the outcome of each download,
\* lookup and write, a run that has collected its candidates goes through
\* every batch, uploads every candidate and writes both output files.
C6_RunCompletes == (pc \in {"batch", "rewrite"}) ~> RunComplete

\* a complete run of two batches in which one candidate's download failed,
\* one candidate's write failed and one candidate was published
C6_Witness ==
    /\ RunComplete
    /\ pauses >= 1
    /\ fetch_failed # {}
    /\ published # {}
    /\ \E k \in started :
         dropbox_urls[k] \notin fetch_failed \cup published

\* the URL's host is dropbox.com or one of its subdomains
HostIsDropbox(url) ==
    LET host == Netloc(url)
    IN  \/ host = Needle_dropbox_com
        \/ /\ Len(host) > Len(Needle_dropbox_com)
           /\ From(host, Len(host) - Len(Needle_dropbox_com)) = <<".">> \o Needle_dropbox_com

\* position k of url holds the 0 of a query parameter dl=0
IsPreviewMarker(url, k) ==
    LET q == Len(CutAt(url, "#")) - Len(UrlQuery(url))  \* the position of "?"
    IN  /\ UrlQuery(url) # <<>>
        /\ k - 3 > q
        /\ k <= Len(CutAt(url, "#"))
        /\ StartsWithAt(url, Needle_dl0, k - 3)
        /\ (k - 4 = q \/ url[k - 4] = "&")
        /\ (k = Len(CutAt(url, "#")) \/ url[k + 1] = "&")

\* C7 as claimed: for a URL on the Dropbox host whose query carries dl=0 the
\* result differs from the URL in the marker alone, now dl=1; every other
\* URL is returned unchanged.
C7_FlipsOnlyMarker ==
    directA # <<>> =>
        LET out == directA[1]
        IN  IF HostIsDropbox(urlA) /\ \E k \in 1..Len(urlA) : IsPreviewMarker(urlA, k)
            THEN /\ Len(out) = Len(urlA)
                 /\ \A k \in 1..Len(urlA) :
                      IF IsPreviewMarker(urlA, k) THEN out[k] = "1"
                      ELSE out[k] = urlA[k]
            ELSE out = urlA

\* C8 as claimed: a call issues a create only after a lookup that did not
\* find the file (a lookup that failed is read here as having found nothing,
\* as both scripts read it); after a lookup that reported it present the
\* call issues exactly one request, an update carrying the looked-up sha,
\* and returns (url, None) when that update fails.
C8_CreateOnlyWhenAbsent ==
    returned_call # <<>> =>
        LET call == returned_call
        IN  /\ \A k \in DOMAIN call.reqs :
                 call.reqs[k].op = "create" => call.lookup \in {"absent", "error"}
            /\ call.lookup = "present" =>
                 /\ Len(call.reqs) = 1
                 /\ call.reqs[1].op = "update"
                 /\ call.reqs[1].sha = call.sha
                 /\ (~call.reqs[1].ok => call.result = <<>>)

\* between batches and after the last one, the mapping holds the public URL
\* of exactly the URLs the store accepted a write for
MappingIsPublished ==
    pc \in {"batch", "sleep", "rewrite", "pages", "done"} =>
        /\ DOMAIN url_mappings = published
        /\ \A u \in published : url_mappings[u] = PublicUrl(impl, u)

\* an entry of the mapping stays, with its value
MappingKept ==
    \A u \in DOMAIN url_mappings :
        u \in DOMAIN url_mappings' /\ url_mappings'[u] = url_mappings[u]

\* C9: under every interleaving of the calls of a batch and of the main
\* thread's merges, once a batch is complete the mapping holds url ->
\* public URL for exactly the URLs whose download and write succeeded, and
\* an entry once added is never removed or changed.
C9_MappingComplete == []MappingIsPublished /\ [][MappingKept]_vars

\* dropbox_to_github after a batch of two parallel calls: both published
C9_Witness ==
    /\ impl = Dropbox
    /\ pc = "sleep"
    /\ Cardinality(published) = 2
    /\ DOMAIN url_mappings = published

\* C10: an upload of a batch begins only when every upload of the earlier
\* batches has returned and one pause per earlier batch has been taken;
\* while a batch runs the pauses taken equal its index; and when the loop is
\* over, n batches have taken max(n - 1, 0) pauses (none for no candidate).
C10_BatchesInSequence ==
    LET n       == Len(dropbox_urls)
        batches == Cardinality({BatchOf(k) : k \in 1..n})
    IN  /\ \A k \in started :
             /\ pauses >= BatchOf(k)
             /\ \A j \in 1..n : BatchOf(j) < BatchOf(k) => j \in finished
        /\ \A i \in DOMAIN workers :
             (pc = "running" /\ workers[i].st # "queued") => pauses = BatchOf(Pos(i))
        /\ pc \in {"rewrite", "pages", "done"} =>
             pauses = IF batches = 0 THEN 0 ELSE batches - 1

\* a finished run of two batches, with its one pause
C10_Witness ==
    /\ pc = "done"
    /\ Len(dropbox_urls) > BATCH_SIZE
    /\ pauses = 1

====
